---------------------------- MODULE Spec2Model ----------------------------
(* epub-translator: the archive loop (processEpub / processFile), the      *)
(* per-document unit loop (translateHTML) and the translate-with-retry     *)
(* loop (translateNode).  The repository holds three variants of the same  *)
(* program: src/main.go (one attempt, no marker), src/unnamed/part_000     *)
(* lines 1-213 (retry loop, doubling back-off, marker) and lines 215-450   *)
(* (retry loop, 429-aware back-off, marker, pacing sleep).  The three      *)
(* share every line that is not named in MaxRetriesOf, BaseDelayOf,        *)
(* Growth, Fallback and PaceOf.  Spec is the current program, the third    *)
(* variant; SpecVariants lets the run be any of the three.                 *)
(* Markup strings are sequences of tokens; durations are in milliseconds.  *)
EXTENDS Integers, Sequences, FiniteSets, TLC

VARIABLES
  variant,     \* which of the three variants of the program runs
  urlOK,       \* GEMINI_API_URL is a URL http.NewRequest accepts
  archive,     \* reader.File: the input archive's entries, in order
  pc,          \* position of the single thread of control
  fileIdx,     \* index of the entry processEpub's loop is at
  out,         \* the zip writer: entries created so far, with their data
  runErr,      \* the error processEpub returned ("" while none)
  tree,        \* doc: the parsed markup tree of the current document
  sel,         \* selection: the nodes doc.Find matched, in document order
  unitIdx,     \* index in sel of the Each callback
  htmlContent, \* translateNode's argument (the unit's inner markup)
  i,           \* translateNode's loop counter
  retryDelay,  \* translateNode's retryDelay
  resp,        \* the response of the attempt just made
  result,      \* translateNode's return value
  tstate,      \* state of the translate call: Idle, Pending, Sending, ...
  statuses,    \* kinds of the failed attempts of the current call, in order
  waits,       \* back-off sleeps of the current call, in order
  attempts,    \* client.Do calls of the current call
  called,      \* nodes of the current document handed to translateNode
  unrendered,  \* nodes of the current document whose s.Html() failed
  sinceReturn, \* sleeps since the last return of translateNode
  prev         \* how the previous translateNode call ended ("none" before any)

vars == <<variant, urlOK, archive, pc, fileIdx, out, runErr, tree, sel, unitIdx,
          htmlContent, i, retryDelay, resp, result, tstate, statuses, waits,
          attempts, called, unrendered, sinceReturn, prev>>

--------------------------------------------------------------------------
(* Bounds and program constants                                            *)

MaxEntries == 2

MaxRetriesV2 == 3
MaxRetriesV3 == 5
BaseDelayV2 == 2000
BaseDelayV3 == 5000
PaceDelayV3 == 200

Variants == {"v1", "v2", "v3"}

\* maxRetries; main.go has no loop: one attempt, no retry
MaxRetriesOf(v) ==
  CASE v = "v1" -> 0
    [] v = "v2" -> MaxRetriesV2
    [] v = "v3" -> MaxRetriesV3

\* retryDelay's initial value; main.go never sleeps
BaseDelayOf(v) ==
  CASE v = "v1" -> 0
    [] v = "v2" -> BaseDelayV2
    [] v = "v3" -> BaseDelayV3

\* the pacing sleep after a write-back; 0 where the variant has none
PaceOf(v) == IF v = "v3" THEN PaceDelayV3 ELSE 0

--------------------------------------------------------------------------
(* Markup: strings as token sequences                                      *)

WS == "_"                      \* a run of white space
SQMarker == "<span style='color: gray; font-size: 0.8em;'>"
DQMarker == "<span style=\"color: gray; font-size: 0.8em;\">"

\* the tokens that are tags, not text
TagToks == {SQMarker, DQMarker, "<span>", "<span id=\"n\">", "</span>", "<em>", "</em>"}

\* the literal appended by the final fallback
FailureMarker == <<WS, SQMarker, "(Translation failed)", "</span>">>

RECURSIVE TrimLeft(_)
TrimLeft(s) == IF s # <<>> /\ Head(s) = WS THEN TrimLeft(Tail(s)) ELSE s

RECURSIVE TrimRight(_)
TrimRight(s) ==
  IF s # <<>> /\ s[Len(s)] = WS THEN TrimRight(SubSeq(s, 1, Len(s) - 1)) ELSE s

\* strings.TrimSpace
TrimSpace(s) == TrimRight(TrimLeft(s))

\* html.Render writes attribute values in double quotes
RenderTok(t) == IF t = SQMarker THEN DQMarker ELSE t

\* a parser and renderer that give back every byte they were given
ParseRenderVerbatim(s) == s

\* what a markup string reads as after parsing and rendering again
ParseRender(s) == [k \in 1..Len(s) |-> RenderTok(s[k])]

--------------------------------------------------------------------------
(* The markup tree: a heap of nodes, ids in document order.  A node that   *)
(* SetHtml wrote holds the parsed fragment in frag (set = TRUE); its       *)
(* former children are detached (parent 0) but stay reachable through the  *)
(* selection, which holds node pointers.                                   *)

\* an element; open and close are its tags as html.Render writes them
Elem(tag, attr, parent, kids) ==
  [tag |-> tag, attr |-> attr, text |-> "", parent |-> parent, kids |-> kids,
   set |-> FALSE, frag |-> <<>>,
   open |-> "<" \o tag \o attr \o ">", close |-> "</" \o tag \o ">"]

Text(data, parent) ==
  [tag |-> "#text", attr |-> "", text |-> data, parent |-> parent, kids |-> <<>>,
   set |-> FALSE, frag |-> <<>>, open |-> "", close |-> ""]

\* <div><p class="c">Hello<em>world</em></p><span> </span><li>Item</li></div>
FlatDoc ==
  <<Elem("div", "", 0, <<2, 6, 8>>),
    Elem("p", " class=\"c\"", 1, <<3, 4>>),
    Text("Hello", 2),
    Elem("em", "", 2, <<5>>),
    Text("world", 4),
    Elem("span", "", 1, <<7>>),
    Text(WS, 6),
    Elem("li", "", 1, <<9>>),
    Text("Item", 8)>>

\* <div><p class="c">Hello<span id="n">world</span><span> </span></p></div>
NestedDoc ==
  <<Elem("div", "", 0, <<2>>),
    Elem("p", " class=\"c\"", 1, <<3, 4, 6>>),
    Text("Hello", 2),
    Elem("span", " id=\"n\"", 2, <<5>>),
    Text("world", 4),
    Elem("span", "", 2, <<7>>),
    Text(WS, 6)>>

\* goquery.NewDocumentFromReader on an entry's bytes
ParseDoc(body) == IF body = "flat" THEN FlatDoc ELSE NestedDoc

AllowList == {"p", "h1", "h2", "h3", "h4", "h5", "h6", "li", "span"}

RECURSIVE ConcatMap(_, _, _)
\* the concatenation of F[ids[k]], F[ids[k+1]], ...
ConcatMap(F, ids, k) ==
  IF k > Len(ids) THEN <<>> ELSE F[ids[k]] \o ConcatMap(F, ids, k + 1)

RECURSIVE OuterOf(_, _, _)
\* html.Render of every node of tree t, as a function id -> tokens: children
\* have larger ids than their parent, so the fold runs from the last id down
OuterOf(t, n, acc) ==
  IF n = 0 THEN acc
  ELSE LET nd == t[n]
           inner == IF nd.set THEN nd.frag ELSE ConcatMap(acc, nd.kids, 1)
           outer == IF nd.tag = "#text" THEN <<nd.text>>
                    ELSE <<nd.open>> \o inner \o <<nd.close>>
       IN OuterOf(t, n - 1, [acc EXCEPT ![n] = outer])

Rendered(t) == OuterOf(t, Len(t), [k \in 1..Len(t) |-> <<>>])

\* the bytes of an archive entry; an XHTML file opens with an XML declaration
RawBytes(body) == <<"<?xml?>">> \o Rendered(ParseDoc(body))[1]

\* doc.Html(): the parser turned the XML declaration into a comment and
\* wrapped the content in html, head and body elements
WrapDocument(markup) ==
  <<"<!--?xml?-->", "<html><head></head><body>">> \o markup \o <<"</body></html>">>

DocHtml(t) == WrapDocument(Rendered(t)[1])

\* s.Html(): the rendering of the node's children
InnerHtml(t, n) ==
  IF t[n].set THEN t[n].frag ELSE ConcatMap(Rendered(t), t[n].kids, 1)

RECURSIVE TextOf(_, _, _)
\* the text of every node with its descendants, as a function id -> tokens
TextOf(t, n, acc) ==
  IF n = 0 THEN acc
  ELSE LET nd == t[n]
           own == IF nd.tag = "#text" THEN <<nd.text>>
                  ELSE IF nd.set
                       THEN SelectSeq(nd.frag, LAMBDA x : x \notin TagToks)
                       ELSE ConcatMap(acc, nd.kids, 1)
       IN TextOf(t, n - 1, [acc EXCEPT ![n] = own])

Texts(t) == TextOf(t, Len(t), [k \in 1..Len(t) |-> <<>>])

\* s.Text()
NodeText(t, n) == Texts(t)[n]

\* a blank test that forgets to trim
IsBlankUntrimmed(t, n) == NodeText(t, n) = <<>>

\* strings.TrimSpace(s.Text()) == ""
IsBlank(t, n) == TrimSpace(NodeText(t, n)) = <<>>

\* doc.Find("p, h1, h2, h3, h4, h5, h6, li, span"): matches in document order
Find(t) == SelectSeq([k \in 1..Len(t) |-> k], LAMBDA n : t[n].tag \in AllowList)

\* a write-back that replaces the element itself, tag and attributes included
ReplaceWithHtml(t, n, markup) ==
  [k \in 1..Len(t) |->
     IF k = n THEN [t[k] EXCEPT !.tag = "#fragment", !.attr = "", !.kids = <<>>,
                                !.open = "", !.close = "",
                                !.set = TRUE, !.frag = ParseRender(markup)]
     ELSE IF t[k].parent = n THEN [t[k] EXCEPT !.parent = 0]
     ELSE t[k]]

\* a write-back that also empties the children it removes
SetHtmlClearing(t, n, markup) ==
  [k \in 1..Len(t) |->
     IF k = n THEN [t[k] EXCEPT !.kids = <<>>, !.set = TRUE,
                                !.frag = ParseRender(markup)]
     ELSE IF t[k].parent = n THEN [t[k] EXCEPT !.parent = 0, !.kids = <<>>]
     ELSE t[k]]

\* s.SetHtml(markup): the node's children are removed and the parsed
\* fragment appended; nothing else of the tree is touched
SetHtml(t, n, markup) ==
  [k \in 1..Len(t) |->
     IF k = n THEN [t[k] EXCEPT !.kids = <<>>, !.set = TRUE,
                                !.frag = ParseRender(markup)]
     ELSE IF t[k].parent = n THEN [t[k] EXCEPT !.parent = 0]
     ELSE t[k]]

--------------------------------------------------------------------------
(* The translation service and translateNode's decisions                   *)

ContentA == <<WS, "Hallo", "<em>", "Welt", "</em>", WS>>
ContentB == <<"Bonjour">>

\* what client.Do can come back with: a transport error (resp is nil), a
\* status, and a body that is JSON or not, holding a list of choices
Response(nil, status, json, choices) ==
  [nil |-> nil, status |-> status, json |-> json, choices |-> choices]

NoResponse == Response(TRUE, 0, FALSE, <<>>)

Responses ==
  { NoResponse,
    Response(FALSE, 500, TRUE, <<ContentA>>),
    Response(FALSE, 429, FALSE, <<>>),
    Response(FALSE, 200, FALSE, <<>>),
    Response(FALSE, 200, TRUE, <<>>),
    Response(FALSE, 200, TRUE, <<ContentA>>),
    Response(FALSE, 200, TRUE, <<ContentB, ContentA>>) }

\* err == nil && resp.StatusCode == http.StatusOK, then
\* json.Unmarshal(...) == nil && len(openAIResp.Choices) > 0
IsSuccess(r) ==
  /\ ~r.nil
  /\ r.status = 200
  /\ r.json
  /\ Len(r.choices) > 0

\* a translateNode that returns the content as the service sent it
TranslatedUntrimmed(r) == r.choices[1]

\* strings.TrimSpace(openAIResp.Choices[0].Message.Content)
Translated(r) == TrimSpace(r.choices[1])

\* the elements of a sequence
Range(q) == {q[k] : k \in DOMAIN q}

\* a retry decision that gives up once a rate-limit status was seen
MayRetryUnlessRateLimited(v, k) == k < MaxRetriesOf(v) /\ TRUE \notin Range(statuses)

\* i < maxRetries: another attempt follows a failed one
MayRetry(v, k) == k < MaxRetriesOf(v)

\* resp != nil && resp.StatusCode == 429
RateLimited(r) == ~r.nil /\ r.status = 429

\* a back-off that ignores the rate-limit status
GrowthDoubling(v, r, d) == d * 2

\* a back-off that always takes the rate-limit multiplier
GrowthTripling(v, r, d) == d * 3

\* a back-off with the two multipliers exchanged
GrowthSwapped(v, r, d) == IF RateLimited(r) THEN d * 2 ELSE d * 3

\* retryDelay *= 3 after a 429 (third variant only), retryDelay *= 2 otherwise
Growth(v, r, d) == IF v = "v3" /\ RateLimited(r) THEN d * 3 ELSE d * 2

\* a final fallback that forgets the marker
FallbackBare(v, markup) == markup

\* the value returned when the loop ran out; main.go returns the bare markup
Fallback(v, markup) == IF v = "v1" THEN markup ELSE markup \o FailureMarker

\* what the code keeps of a response after the success test: whether there
\* was one, and its status
Kept(r) == Response(r.nil, r.status, FALSE, <<>>)

--------------------------------------------------------------------------
(* The archive                                                             *)

Files ==
  { [name |-> "ch1.xhtml", body |-> "flat"],
    [name |-> "ch2.HTML", body |-> "nested"],
    [name |-> "style.css", body |-> "flat"] }

\* the entries of an archive have distinct names
Archives ==
  { a \in UNION { [1..n -> Files] : n \in 0..MaxEntries } :
      \A j, k \in DOMAIN a : j # k => a[j].name # a[k].name }

\* filepath.Ext
Ext(name) ==
  CASE name = "ch1.xhtml" -> ".xhtml"
    [] name = "ch2.HTML" -> ".HTML"
    [] name = "style.css" -> ".css"

\* strings.ToLower
ToLower(e) == IF e = ".HTML" THEN ".html" ELSE e

\* ext == ".xhtml" || ext == ".html"
IsMarkup(name) == ToLower(Ext(name)) \in {".xhtml", ".html"}

Entry(name, data) == [name |-> name, data |-> data]

--------------------------------------------------------------------------
InitRun ==
  /\ urlOK \in BOOLEAN
  /\ archive \in Archives
  /\ pc = "epub"
  /\ fileIdx = 1
  /\ out = <<>>
  /\ runErr = ""
  /\ tree = <<>>
  /\ sel = <<>>
  /\ unitIdx = 1
  /\ htmlContent = <<>>
  /\ i = 0
  /\ retryDelay = 0
  /\ resp = NoResponse
  /\ result = <<>>
  /\ tstate = "Idle"
  /\ statuses = <<>>
  /\ waits = <<>>
  /\ attempts = 0
  /\ called = <<>>
  /\ unrendered = {}
  /\ sinceReturn = <<>>
  /\ prev = "none"

\* the current program: src/unnamed/part_000, lines 215-450
Init == variant = "v3" /\ InitRun

\* any of the three variants the repository holds
InitVariants == variant \in Variants /\ InitRun

docVars == <<tree, sel, unitIdx, called, unrendered>>
callVars == <<htmlContent, i, retryDelay, resp, result, tstate, statuses, waits,
              attempts>>
cfgVars == <<variant, urlOK, archive>>

AtEntry == pc = "epub" /\ fileIdx <= Len(archive)

\* a processEpub that drops the error processFile returned
AbortSilently(e) == runErr' = "" /\ pc' = "done"

\* processEpub returns the error processFile returned
Abort(e) == runErr' = e /\ pc' = "done"

\* processFile: file.Open() fails
OpenFails ==
  /\ AtEntry
  /\ Abort("open")
  /\ UNCHANGED <<cfgVars, fileIdx, out, docVars, callVars, sinceReturn, prev>>

\* processFile: writer.Create(file.Name) fails
CreateFails ==
  /\ AtEntry
  /\ Abort("create")
  /\ UNCHANGED <<cfgVars, fileIdx, out, docVars, callVars, sinceReturn, prev>>

\* a copy that takes the entry through the markup parser and serializer
CopiedReserialized(e) == DocHtml(ParseDoc(e.body))

\* what io.Copy(w, rc) writes when it does not fail: the entry's bytes
Copied(e) == RawBytes(e.body)

\* processFile on an entry that is no markup document: io.Copy(w, rc), which
\* may fail after part of the bytes
CopyEntry ==
  /\ AtEntry
  /\ ~IsMarkup(archive[fileIdx].name)
  /\ LET e == archive[fileIdx]
         raw == Copied(e)
     IN \/ /\ out' = Append(out, Entry(e.name, raw))
           /\ fileIdx' = fileIdx + 1
           /\ UNCHANGED <<pc, runErr>>
        \/ /\ \E n \in {0, 1} : out' = Append(out, Entry(e.name, SubSeq(raw, 1, n)))
           /\ Abort("copy")
           /\ UNCHANGED fileIdx
  /\ UNCHANGED <<cfgVars, docVars, callVars, sinceReturn, prev>>

\* processFile on a markup document, up to translateHTML's doc.Find
ParseEntry ==
  /\ AtEntry
  /\ IsMarkup(archive[fileIdx].name)
  /\ out' = Append(out, Entry(archive[fileIdx].name, <<>>))
  /\ \/ /\ Abort("parse")
        /\ UNCHANGED docVars
     \/ /\ tree' = ParseDoc(archive[fileIdx].body)
        /\ sel' = Find(tree')
        /\ unitIdx' = 1
        /\ called' = <<>>
        /\ unrendered' = {}
        /\ pc' = "each"
        /\ UNCHANGED runErr
  /\ UNCHANGED <<cfgVars, fileIdx, callVars, sinceReturn, prev>>

AtUnit == pc = "each" /\ unitIdx <= Len(sel)

\* the Each callback on a unit without text: return
SkipBlank ==
  /\ AtUnit
  /\ IsBlank(tree, sel[unitIdx])
  /\ unitIdx' = unitIdx + 1
  /\ UNCHANGED <<cfgVars, pc, fileIdx, out, runErr, tree, sel, called, unrendered,
                 callVars, sinceReturn, prev>>

\* the Each callback when s.Html() fails: return
SkipUnrendered ==
  /\ AtUnit
  /\ ~IsBlank(tree, sel[unitIdx])
  /\ unitIdx' = unitIdx + 1
  /\ unrendered' = unrendered \cup {sel[unitIdx]}
  /\ UNCHANGED <<cfgVars, pc, fileIdx, out, runErr, tree, sel, called, callVars,
                 sinceReturn, prev>>

\* the Each callback calls translateNode(inner, ...), up to the loop
CallTranslate ==
  /\ AtUnit
  /\ ~IsBlank(tree, sel[unitIdx])
  /\ htmlContent' = InnerHtml(tree, sel[unitIdx])
  /\ i' = 0
  /\ retryDelay' = BaseDelayOf(variant)
  /\ tstate' = "Pending"
  /\ called' = Append(called, sel[unitIdx])
  /\ pc' = "node"
  /\ statuses' = <<>>
  /\ waits' = <<>>
  /\ attempts' = 0
  /\ UNCHANGED <<cfgVars, fileIdx, out, runErr, tree, sel, unitIdx, unrendered,
                 resp, result, sinceReturn, prev>>

\* a translateNode that raises its exhaustion to the caller
ReturnOrAbort(value, how) ==
  /\ result' = value
  /\ tstate' = how
  /\ pc' = IF how = "Exhausted" THEN "done" ELSE "set"
  /\ sinceReturn' = <<>>

\* translateNode returns: the callback goes on to SetHtml
Return(value, how) ==
  /\ result' = value
  /\ tstate' = how
  /\ pc' = "set"
  /\ sinceReturn' = <<>>

\* the first pass of the loop: http.NewRequest, then client.Do; a URL that
\* does not parse makes translateNode return its argument
Request ==
  /\ pc = "node"
  /\ tstate = "Pending"
  /\ IF urlOK
     THEN /\ tstate' = "Sending"
          /\ attempts' = attempts + 1
          /\ UNCHANGED <<pc, result, sinceReturn>>
     ELSE /\ Return(htmlContent, "Aborted")
          /\ UNCHANGED attempts
  /\ UNCHANGED <<cfgVars, fileIdx, out, runErr, docVars, htmlContent, i, retryDelay,
                 resp, statuses, waits, prev>>

\* client.Do came back with a usable translation
RespondSuccess ==
  /\ pc = "node"
  /\ tstate = "Sending"
  /\ \E r \in Responses :
       /\ IsSuccess(r)
       /\ resp' = r
       /\ Return(Translated(r), "Success")
  /\ UNCHANGED <<cfgVars, fileIdx, out, runErr, docVars, htmlContent, i, retryDelay,
                 statuses, waits, attempts, prev>>

\* client.Do failed and i < maxRetries: the back-off sleep is next
RespondRetry ==
  /\ pc = "node"
  /\ tstate = "Sending"
  /\ MayRetry(variant, i)
  /\ \E r \in Responses :
       /\ ~IsSuccess(r)
       /\ resp' = Kept(r)
       /\ statuses' = Append(statuses, RateLimited(r))
  /\ tstate' = "RetryScheduled"
  /\ UNCHANGED <<cfgVars, pc, fileIdx, out, runErr, docVars, htmlContent, i,
                 retryDelay, result, waits, attempts, sinceReturn, prev>>

\* client.Do failed on the last pass: the loop ends and the fallback returns
RespondExhausted ==
  /\ pc = "node"
  /\ tstate = "Sending"
  /\ ~MayRetry(variant, i)
  /\ \E r \in Responses :
       /\ ~IsSuccess(r)
       /\ resp' = Kept(r)
       /\ statuses' = Append(statuses, RateLimited(r))
  /\ i' = i + 1
  /\ Return(Fallback(variant, htmlContent), "Exhausted")
  /\ UNCHANGED <<cfgVars, fileIdx, out, runErr, docVars, htmlContent, retryDelay,
                 waits, attempts, prev>>

\* a back-off that multiplies the delay before it sleeps
BackoffGrowFirst ==
  /\ pc = "node"
  /\ tstate = "RetryScheduled"
  /\ retryDelay' = Growth(variant, resp, retryDelay)
  /\ waits' = Append(waits, retryDelay')
  /\ sinceReturn' = Append(sinceReturn, retryDelay')
  /\ i' = i + 1
  /\ tstate' = "Sending"
  /\ attempts' = attempts + 1
  /\ UNCHANGED <<cfgVars, pc, fileIdx, out, runErr, docVars, htmlContent, resp,
                 result, statuses, prev>>

\* time.Sleep(retryDelay), the multiplication, continue, and the next pass's
\* http.NewRequest and client.Do
Backoff ==
  /\ pc = "node"
  /\ tstate = "RetryScheduled"
  /\ waits' = Append(waits, retryDelay)
  /\ sinceReturn' = Append(sinceReturn, retryDelay)
  /\ retryDelay' = Growth(variant, resp, retryDelay)
  /\ i' = i + 1
  /\ tstate' = "Sending"
  /\ attempts' = attempts + 1
  /\ UNCHANGED <<cfgVars, pc, fileIdx, out, runErr, docVars, htmlContent, resp,
                 result, statuses, prev>>

\* a pacing sleep that takes over the back-off delay the call ended with
PacingByBackoff(v) == IF PaceOf(v) > 0 THEN <<PaceOf(v) + retryDelay>> ELSE <<>>

\* the sleeps the callback performs after s.SetHtml
Pacing(v) == IF PaceOf(v) > 0 THEN <<PaceOf(v)>> ELSE <<>>

\* s.SetHtml(translated), the pacing sleep, and the callback returns
WriteBack ==
  /\ pc = "set"
  /\ tree' = SetHtml(tree, sel[unitIdx], result)
  /\ sinceReturn' = sinceReturn \o Pacing(variant)
  /\ unitIdx' = unitIdx + 1
  /\ pc' = "each"
  /\ prev' = tstate
  /\ tstate' = "Idle"
  /\ htmlContent' = <<>>
  /\ i' = 0
  /\ retryDelay' = 0
  /\ resp' = NoResponse
  /\ result' = <<>>
  /\ statuses' = <<>>
  /\ waits' = <<>>
  /\ attempts' = 0
  /\ UNCHANGED <<cfgVars, fileIdx, out, runErr, sel, called, unrendered>>

\* after Each: doc.Html() and io.WriteString(w, htmlStr); either may fail
Serialize ==
  /\ pc = "each"
  /\ unitIdx > Len(sel)
  /\ \/ /\ Abort("serialize")
        /\ UNCHANGED <<out, fileIdx>>
     \/ /\ Abort("write")
        /\ UNCHANGED <<out, fileIdx>>
     \/ /\ out' = [out EXCEPT ![Len(out)].data = DocHtml(tree)]
        /\ fileIdx' = fileIdx + 1
        /\ pc' = "epub"
        /\ UNCHANGED runErr
  /\ UNCHANGED <<cfgVars, docVars, callVars, sinceReturn, prev>>

\* processEpub's loop is over: return nil
Finish ==
  /\ pc = "epub"
  /\ fileIdx > Len(archive)
  /\ pc' = "done"
  /\ UNCHANGED <<cfgVars, fileIdx, out, runErr, docVars, callVars, sinceReturn, prev>>

Next ==
  \/ OpenFails
  \/ CreateFails
  \/ CopyEntry
  \/ ParseEntry
  \/ SkipBlank
  \/ SkipUnrendered
  \/ CallTranslate
  \/ Request
  \/ RespondSuccess
  \/ RespondRetry
  \/ RespondExhausted
  \/ Backoff
  \/ WriteBack
  \/ Serialize
  \/ Finish

Spec == Init /\ [][Next]_vars

SpecVariants == InitVariants /\ [][Next]_vars

--------------------------------------------------------------------------
(* Vocabulary of the properties                                            *)

InDoc == pc \in {"each", "node", "set"}

\* the tree of the current document as it was parsed
OrigTree == ParseDoc(archive[fileIdx].body)

\* the unit the Each callback is at
Unit == sel[unitIdx]

\* the unit's inner markup in the input tree
OrigInner == InnerHtml(OrigTree, Unit)

\* translateNode has returned and its value is not yet written back
Returned == pc = "set"

\* every attempt of the call was made and failed
AllAttemptsFailed == attempts >= 1 /\ Len(statuses) = attempts

HasMarker(markup) == \E k \in DOMAIN markup : markup[k] \in {SQMarker, DQMarker}

MaxRetries == MaxRetriesOf(variant)
BaseDelay == BaseDelayOf(variant)

RECURSIVE Ancestors(_, _)
\* the proper ancestors of node n in tree t
Ancestors(t, n) ==
  IF t[n].parent = 0 THEN {} ELSE {t[n].parent} \cup Ancestors(t, t[n].parent)

\* node n is still part of the tree that doc.Html() renders
Attached(t, n) == n = 1 \/ 1 \in Ancestors(t, n)

RECURSIVE PreOrder(_, _)
\* the nodes under n (n included) in document order, read off the child lists
PreOrder(t, n) ==
  LET F == [k \in DOMAIN t |-> IF k \in Range(t[n].kids) THEN PreOrder(t, k) ELSE <<>>]
  IN <<n>> \o ConcatMap(F, t[n].kids, 1)

\* the nodes of tree t whose text is empty or white space only
BlankNodes(t) ==
  LET texts == Texts(t)
  IN {n \in DOMAIN t : \A k \in DOMAIN texts[n] : texts[n][k] = WS}

\* the text of node n is empty or white space only
BlankText(t, n) == n \in BlankNodes(t)

\* the selected elements of the current document
Selected == Range(sel)

\* the nodes of tree t that lie inside a selected element that has text
InsideUnits(t) ==
  LET blank == BlankNodes(t)
  IN {n \in DOMAIN t :
        \E a \in Ancestors(t, n) : t[a].tag \in AllowList /\ a \notin blank}

\* node n lies inside a selected element that has text
InsideUnit(t, n) == n \in InsideUnits(t)

\* sub occurs in q as a run of consecutive tokens
Occurs(sub, q) ==
  \E k \in 0..(Len(q) - Len(sub)) : SubSeq(q, k + 1, k + Len(sub)) = sub

\* the Each loop is over: the tree is what doc.Html() will render
TreeFinal == pc = "each" /\ unitIdx > Len(sel)

\* a step of the translate call: an attempt, a back-off sleep or a return
CallStep ==
  Request \/ RespondSuccess \/ RespondRetry \/ RespondExhausted \/ Backoff

--------------------------------------------------------------------------
C2_SuccessAfterFailures ==
  (Returned /\ tstate = "Success" /\ Len(statuses) < MaxRetries) =>
    /\ attempts = Len(statuses) + 1
    /\ IsSuccess(resp)
    /\ result = TrimSpace(resp.choices[1])
    /\ ~HasMarker(result)
    /\ Len(waits) = Len(statuses)
    /\ ~ENABLED CallStep

\* HTTP failures twice, then a 200 whose first choice has white space around
C2_Witness ==
  /\ Returned
  /\ tstate = "Success"
  /\ Len(statuses) = 2
  /\ attempts = 3
  /\ resp.choices[1] = ContentA
  /\ result = <<"Hallo", "<em>", "Welt", "</em>">>

--------------------------------------------------------------------------
\* C3, as claimed: for every selected element without text the service is
\* never invoked, and its markup stands unchanged in the tree that is
\* written out, whatever the service answers for the other units.
C3_BlankKeptInOutput ==
  TreeFinal =>
    \A before \in {Rendered(OrigTree)}, written \in {DocHtml(tree)} :
      \A n \in Selected \cap BlankNodes(OrigTree) :
        /\ n \notin Range(called)
        /\ Occurs(before[n], written)

\* C3, amended: for every selected element without text the service is never
\* invoked for it and the element itself (tag, attributes, children) is
\* never changed; unless it lies inside a selected element that has text,
\* it stays where it was in the tree and its markup is written out unchanged.
C3_BlankUntouched ==
  InDoc =>
    \A before \in {Rendered(OrigTree)}, now \in {Rendered(tree)} :
      \A n \in Selected \cap BlankNodes(OrigTree) :
        /\ n \notin Range(called)
        /\ [tree[n] EXCEPT !.parent = 0] = [OrigTree[n] EXCEPT !.parent = 0]
        /\ now[n] = before[n]
        /\ n \notin InsideUnits(OrigTree) =>
             /\ Attached(tree, n)
             /\ tree[n].parent = OrigTree[n].parent
             /\ Occurs(before[n], WrapDocument(now[1]))

\* a blank unit was passed over while a unit before it was translated and
\* written back
C3_Witness ==
  /\ InDoc
  /\ \E j \in 1..(unitIdx - 1) :
       /\ BlankText(OrigTree, sel[j])
       /\ ~InsideUnit(OrigTree, sel[j])
       /\ Attached(tree, sel[j])
       /\ \E k \in 1..(j - 1) : tree[sel[k]].set /\ ~HasMarker(tree[sel[k]].frag)

\* C4: the units with text are handed to the service in document order, a
\* unit's outcome is written back before the next unit's call starts, and
\* the write-back replaces the element's children only: its tag and
\* attributes and every node outside it stay as they were.
C4_OrderAndFrame ==
  /\ [](InDoc =>
          /\ \A order \in {PreOrder(OrigTree, 1)} :
               \A j, k \in DOMAIN called, p, q \in DOMAIN order :
                 (j < k /\ order[p] = called[j] /\ order[q] = called[k]) => p < q
          /\ \A k \in DOMAIN called :
               (k < Len(called) \/ pc = "each") => tree[called[k]].set
          /\ pc \in {"node", "set"} => called[Len(called)] = Unit)
  /\ [][(pc = "set" /\ pc' = "each") =>
          /\ tree'[Unit].tag = tree[Unit].tag
          /\ tree'[Unit].attr = tree[Unit].attr
          /\ tree'[Unit].parent = tree[Unit].parent
          /\ InnerHtml(tree', Unit) = ParseRender(result)
          /\ \A before \in {Rendered(tree)}, after \in {Rendered(tree')} :
               \A m \in DOMAIN tree :
                 m # Unit =>
                   /\ [tree'[m] EXCEPT !.parent = 0] = [tree[m] EXCEPT !.parent = 0]
                   /\ tree'[m].parent # tree[m].parent => tree[m].parent = Unit
                   /\ m \notin Ancestors(tree, Unit) => after[m] = before[m]]_vars

\* the second unit's call is under way and the first unit's outcome is in
\* the tree, between its unchanged siblings
C4_Witness ==
  /\ pc = "node"
  /\ attempts >= 1
  /\ Len(called) = 2
  /\ tree[called[1]].set
  /\ tree[called[1]].attr = " class=\"c\""
  /\ Attached(tree, called[1])
  /\ \E m \in DOMAIN tree :
       m # called[1] /\ tree[m].parent = tree[called[1]].parent /\ tree[m] = OrigTree[m]

--------------------------------------------------------------------------
RECURSIVE Pow(_, _)
Pow(b, e) == IF e = 0 THEN 1 ELSE b * Pow(b, e - 1)

\* C5, as claimed: when the first attempt is answered 429 and every later
\* attempt fails too, the sleep between the first and the second attempt is
\* 3 times the base delay and the value returned carries the failure marker.
C5_FirstWaitTripled ==
  (Returned /\ AllAttemptsFailed /\ statuses[1]) =>
    /\ waits[1] = 3 * BaseDelay
    /\ HasMarker(result)

\* C5, amended: when the first attempt is answered 429 and every later
\* attempt fails too, the sleep between the first and the second attempt is
\* the base delay; the 429 triples the sleep after that, between the second
\* and the third attempt; and the value returned carries the failure marker.
C5_SecondWaitTripled ==
  (Returned /\ AllAttemptsFailed /\ statuses[1]) =>
    /\ waits[1] = BaseDelay
    /\ waits[2] = 3 * BaseDelay
    /\ result = OrigInner \o FailureMarker

\* a 429 on the first attempt, other failures on all the later ones
C5_Witness ==
  /\ Returned
  /\ AllAttemptsFailed
  /\ statuses[1]
  /\ \A k \in 2..Len(statuses) : ~statuses[k]
  /\ waits[1] = BaseDelay
  /\ HasMarker(result)

\* C6: while no attempt of a call has been answered 429, the sleep after the
\* i-th failed attempt (i = 1..maxRetries) is base * 2^(i-1).
C6_DoublingWithoutRateLimit ==
  (pc \in {"node", "set"} /\ TRUE \notin Range(statuses)) =>
    /\ Len(waits) <= MaxRetries
    /\ \A n \in DOMAIN waits : waits[n] = BaseDelay * Pow(2, n - 1)

\* all maxRetries sleeps of a call were made and no failure was a 429
C6_Witness ==
  /\ pc = "node"
  /\ MaxRetries > 0
  /\ TRUE \notin Range(statuses)
  /\ Len(waits) = MaxRetries
  /\ waits[MaxRetries] = BaseDelay * Pow(2, MaxRetries - 1)

\* C7: every value translateNode returns is the trimmed text of a successful
\* response or the unit's original markup followed by the failure marker,
\* and no unit with text is passed over without a call.
C7_TranslatedOrMarked ==
  /\ Returned =>
       \/ tstate = "Success" /\ IsSuccess(resp) /\ result = TrimSpace(resp.choices[1])
       \/ result = OrigInner \o FailureMarker
  /\ InDoc =>
       \A j \in 1..(unitIdx - 1) :
         sel[j] \notin BlankNodes(OrigTree) => sel[j] \in Range(called)

\* C8: a unit that ran out of attempts does not stop the run: no step of a
\* translate call ends the run or sets its error; when the loop over the
\* units is over, every unit with text whose markup could be rendered was
\* called once, in order, and holds its outcome; and a run that ends
\* without I/O error has written every document.
C8_ExhaustionNeverStopsRun ==
  /\ [][(pc = "node" \/ pc = "set") => (pc' # "done" /\ runErr' = "")]_vars
  /\ [](TreeFinal =>
          /\ called = SelectSeq(sel, LAMBDA n : n \notin BlankNodes(OrigTree) \cup unrendered)
          /\ \A n \in Range(called) : tree[n].set)
  /\ []((pc = "done" /\ runErr = "") =>
          /\ Len(out) = Len(archive)
          /\ \A k \in DOMAIN out :
               IsMarkup(archive[k].name) => Occurs(<<"</body></html>">>, out[k].data))

\* the run ended without error and a document it wrote carries the marker
\* of a unit that ran out of attempts
C8_Witness ==
  /\ pc = "done"
  /\ runErr = ""
  /\ \E k \in DOMAIN out : HasMarker(out[k].data) /\ Occurs(<<"Hallo">>, out[k].data)

\* C9: when translateNode returns for a unit, at least 1 and at most
\* maxRetries+1 attempts were made, and never more while it runs.
C9_AttemptsBetweenOneAndMax ==
  /\ attempts <= MaxRetries + 1
  /\ Returned => attempts >= 1

--------------------------------------------------------------------------
\* C11: every entry whose extension is not .html or .xhtml, whatever its
\* case, is written under its own name with the bytes it had, and no
\* translate call is made for it; the output holds the input's entries, one
\* for one and in the input's order.
C11_NonMarkupCopied ==
  /\ [](/\ Len(out) <= Len(archive)
        /\ fileIdx - 1 <= Len(out)
        /\ \A k \in DOMAIN out : out[k].name = archive[k].name
        /\ \A k \in 1..(fileIdx - 1) :
             ToLower(Ext(archive[k].name)) \notin {".html", ".xhtml"} =>
               out[k].data = RawBytes(archive[k].body))
  /\ []((pc = "done" /\ runErr = "") => Len(out) = Len(archive))
  /\ [][(AtEntry /\ ToLower(Ext(archive[fileIdx].name)) \notin {".html", ".xhtml"}) =>
          /\ pc' \in {"epub", "done"}
          /\ UNCHANGED <<docVars, callVars, prev>>]_vars

\* a run that ended without error copied style.css beside a document it
\* translated
C11_Witness ==
  /\ pc = "done"
  /\ runErr = ""
  /\ \E j, k \in DOMAIN out :
       /\ archive[k].name = "style.css"
       /\ out[k] = Entry("style.css", RawBytes(archive[k].body))
       /\ IsMarkup(archive[j].name)
       /\ Occurs(<<"Hallo">>, out[j].data)

--------------------------------------------------------------------------
\* C12: when opening, parsing, serializing or writing an entry fails, the
\* run ends with an error at that entry: the error is set once, by the step
\* that ends the run; a run ends without error only past the last entry;
\* and after an error no entry beyond the failing one is in the output and
\* no step (no read, no write, no translate call) follows.
C12_ErrorAbortsRun ==
  /\ [][runErr' # runErr =>
          /\ runErr = ""
          /\ runErr' \in {"open", "create", "copy", "parse", "serialize", "write"}
          /\ pc' = "done"
          /\ fileIdx' = fileIdx
          /\ fileIdx <= Len(archive)
          /\ UNCHANGED <<docVars, callVars>>]_vars
  /\ [](pc = "done" => (runErr = "" <=> fileIdx > Len(archive)))
  /\ []((pc = "done" /\ runErr # "") =>
          /\ Len(out) <= fileIdx
          /\ ~ENABLED Next)

\* the first of two entries was translated and its serialization failed: the
\* run is over and the second entry was never created
C12_Witness ==
  /\ pc = "done"
  /\ runErr = "serialize"
  /\ fileIdx = 1
  /\ Len(archive) = 2
  /\ Len(out) = 1
  /\ called # <<>>

--------------------------------------------------------------------------
\* the transitions of the translate state machine
MachineSteps ==
  { <<"Pending", "Sending">>, <<"Sending", "Success">>,
    <<"Sending", "RetryScheduled">>, <<"RetryScheduled", "Sending">>,
    <<"Sending", "Exhausted">> }

\* C13: the translate call of a unit starts in Pending; while the call lasts
\* its state changes only along Pending->Sending, Sending->Success,
\* Sending->RetryScheduled, RetryScheduled->Sending and Sending->Exhausted;
\* Success and Exhausted are left only when the call's state is discarded
\* at the write-back; and a call that has returned is in Success or in
\* Exhausted.
C13_StateMachine ==
  /\ [][tstate' # tstate =>
          \/ tstate = "Idle" /\ tstate' = "Pending"
          \/ <<tstate, tstate'>> \in MachineSteps
          \/ tstate \in {"Success", "Exhausted"} /\ tstate' = "Idle" /\ pc = "set"]_vars
  /\ [](Returned => tstate \in {"Success", "Exhausted"})

--------------------------------------------------------------------------
\* C14: after a failed attempt the call retries or gives up by the number of
\* attempts made alone: whatever the kinds of the failures, a failure of one
\* of the first maxRetries attempts is followed by a retry and a failure of
\* attempt maxRetries+1 by giving up; so the number of attempts and the
\* terminal state follow from the indices of the failed attempts, every
\* failed attempt but the last permitted one is followed by one wait, and a
\* wait differs from the wait of a run without 429 only if a 429 came
\* before it.
C14_RetryIgnoresFailureKind ==
  /\ [][(tstate = "Sending" /\ tstate' # "Sending" /\ tstate' # "Success") =>
          /\ Len(statuses') = attempts
          /\ tstate' = (IF attempts <= MaxRetries THEN "RetryScheduled" ELSE "Exhausted")]_vars
  /\ []((Returned /\ attempts >= 1) =>
          /\ attempts = (IF tstate = "Success" THEN Len(statuses) + 1 ELSE MaxRetries + 1)
          /\ tstate = (IF Len(statuses) = attempts THEN "Exhausted" ELSE "Success")
          /\ Len(waits) = attempts - 1)
  /\ [](\A n \in DOMAIN waits :
          (\A j \in 1..(n - 1) : ~statuses[j]) => waits[n] = BaseDelay * Pow(2, n - 1))

\* a 429 and then a transport error: both were followed by a retry
C14_Witness ==
  /\ pc = "node"
  /\ tstate = "RetryScheduled"
  /\ attempts = 2
  /\ statuses = <<TRUE, FALSE>>
  /\ resp.nil
  /\ waits = <<BaseDelay>>

--------------------------------------------------------------------------
\* C15, as claimed: the wait after a failed attempt is a function of the
\* attempt's zero-based index and of whether that failure was a rate-limit
\* response.  The histories without any 429 and with 429 only fix that
\* function: base * 2^index and base * 3^index; so every history must wait
\* that long after a failure of that index and kind.
C15_WaitByIndexAndLastFlag ==
  \A n \in DOMAIN waits :
    waits[n] = BaseDelay * Pow(IF statuses[n] THEN 3 ELSE 2, n - 1)

\* C15, amended: the wait after a failed attempt is a function of the
\* previous wait of the call and of whether the failure before that wait
\* was a rate-limit response: the first wait is the base delay, each later
\* wait is the previous one times 3 if the failure the previous wait
\* followed was a 429 and times 2 otherwise; the failure the wait follows
\* has no part in it.
C15_WaitByPreviousWait ==
  \A n \in DOMAIN waits :
    waits[n] = IF n = 1 THEN BaseDelay
               ELSE waits[n - 1] * (IF statuses[n - 1] THEN 3 ELSE 2)

\* a 429 and then another failure: the second wait, after a failure that
\* was no rate-limit response, is not the wait of a history without 429
C15_Witness ==
  /\ pc = "node"
  /\ tstate = "Sending"
  /\ statuses = <<TRUE, FALSE>>
  /\ waits = <<BaseDelay, 3 * BaseDelay>>

--------------------------------------------------------------------------
\* the selected elements with text that enclose node n in the input tree
UnitsAround(n) ==
  {a \in Ancestors(OrigTree, n) :
     OrigTree[a].tag \in AllowList /\ a \notin BlankNodes(OrigTree)}

\* the selected elements with text that lie inside another one
NestedUnits ==
  {n \in Selected : n \notin BlankNodes(OrigTree) /\ UnitsAround(n) # {}}

\* C16: a selected element with text that lies inside another selected
\* element with text is a unit of its own: the enclosing element is called
\* first, with inner markup that holds the nested element; the nested
\* element is called after it, with the inner markup it had in the input;
\* and when the loop is over both have been called (a unit whose own
\* markup could not be rendered aside).
C16_NestedBothProcessed ==
  InDoc =>
    \A before \in {Rendered(OrigTree)} :
      \A n \in NestedUnits :
        /\ \A a \in UnitsAround(n) :
             /\ (pc \in {"node", "set"} /\ Unit = a) =>
                  /\ htmlContent = InnerHtml(OrigTree, a)
                  /\ Occurs(before[n], htmlContent)
                  /\ n \notin Range(called)
             /\ (pc \in {"node", "set"} /\ Unit = n) =>
                  /\ htmlContent = InnerHtml(OrigTree, n)
                  /\ a \in Range(called) \cup unrendered
                  /\ a \in Range(called) => tree[a].set /\ ~Attached(tree, n)
        /\ TreeFinal => n \in Range(called) \cup unrendered

\* the paragraph was translated and written back, and the span that was
\* inside it is now sent with its own original inner markup
C16_Witness ==
  /\ pc = "node"
  /\ tstate = "Sending"
  /\ Unit \in NestedUnits
  /\ htmlContent = <<"world">>
  /\ \E a \in UnitsAround(Unit) :
       /\ a \in Range(called)
       /\ tree[a].frag = <<"Bonjour">>

--------------------------------------------------------------------------
\* the selected elements with text that lie in no other one
OutermostUnits ==
  {a \in Selected : a \notin BlankNodes(OrigTree) /\ UnitsAround(a) = {}}

\* a step of the unit loop inside one document
DocStep == InDoc /\ pc' \in {"each", "node", "set"}

\* C17, as claimed: the write-back of an outermost unit makes its inner
\* markup exactly the outcome translateNode returned for it.
C17_InnerEqualsOutcome ==
  [][(pc = "set" /\ pc' = "each" /\ Unit \in OutermostUnits) =>
       InnerHtml(tree', Unit) = result]_vars

\* C17, amended: the write-back of an outermost unit makes its inner markup
\* the outcome as the serializer writes it: token for token the outcome,
\* except that the failure marker's attribute comes out in double quotes;
\* no later step of the document's loop changes it, the write-back of a
\* unit nested in a unit already written back leaves the whole serialized
\* tree as it was, and the document written out holds each outermost unit
\* with that inner markup.
C17_InnerIsSerializedOutcome ==
  /\ [][(pc = "set" /\ pc' = "each" /\ Unit \in OutermostUnits) =>
          /\ InnerHtml(tree', Unit) =
               [k \in DOMAIN result |->
                  IF result[k] = SQMarker THEN DQMarker ELSE result[k]]
          /\ ~HasMarker(result) => InnerHtml(tree', Unit) = result]_vars
  /\ [][DocStep =>
          \A a \in DOMAIN tree :
            tree[a].set => (tree'[a] = tree[a] \/ a \notin OutermostUnits)]_vars
  /\ [][(pc = "set" /\ pc' = "each" /\ UnitsAround(Unit) \cap Range(called) # {}) =>
          DocHtml(tree') = DocHtml(tree)]_vars
  /\ [][(pc = "each" /\ pc' = "epub") =>
          \A a \in OutermostUnits \cap Range(called) :
            Occurs(<<tree[a].open>> \o tree[a].frag \o <<tree[a].close>>,
                   out'[Len(out')].data)]_vars

\* the paragraph ran out of attempts and holds its original markup with the
\* marker; the span that was inside it was translated and written back
C17_Witness ==
  /\ InDoc
  /\ \E n \in NestedUnits :
       /\ tree[n].set
       /\ ~HasMarker(tree[n].frag)
       /\ \E a \in UnitsAround(n) \cap OutermostUnits :
            /\ tree[a].set
            /\ DQMarker \in Range(tree[a].frag)

--------------------------------------------------------------------------
RECURSIVE Multipliers(_, _)
\* the product, over the first k failures of history h, of 3 for a 429 and
\* of 2 for any other failure
Multipliers(h, k) ==
  IF k = 0 THEN 1 ELSE (IF h[k] THEN 3 ELSE 2) * Multipliers(h, k - 1)

\* C18: the wait after the n-th failed attempt is the base delay times the
\* product, over failures 1..n-1, of 3 for a 429 and 2 otherwise: the n-th
\* failure's own status is not in it.  One wait follows each failed attempt
\* but the last permitted one: there are never more than maxRetries waits,
\* as many waits as failures once the retry is under way or has succeeded,
\* and one less while the wait is still to come and after the last
\* permitted attempt has failed.
C18_WaitIsProductOfEarlierMultipliers ==
  (pc \in {"node", "set"}) =>
    /\ \A n \in DOMAIN waits : waits[n] = BaseDelay * Multipliers(statuses, n - 1)
    /\ Len(waits) <= MaxRetries
    /\ tstate \in {"Sending", "Success"} => Len(waits) = Len(statuses)
    /\ tstate = "RetryScheduled" => Len(waits) = Len(statuses) - 1
    /\ tstate = "Exhausted" => Len(waits) = MaxRetries /\ Len(statuses) = MaxRetries + 1

\* failures 500, 429, 429, 500: waits of 5s, 10s, 30s and 90s
C18_Witness ==
  /\ pc = "node"
  /\ tstate = "Sending"
  /\ statuses = <<FALSE, TRUE, TRUE, FALSE>>
  /\ waits = <<BaseDelay, 2 * BaseDelay, 6 * BaseDelay, 18 * BaseDelay>>

==========================================================================
